---------------------------- MODULE Spec2Model ----------------------------
(***************************************************************************)
(* A model of recap/types.py: the RecapType class hierarchy, the           *)
(* process-wide alias registry RecapType.type_registry, ProxyType.resolve  *)
(* and the dictionary parser from_dict.                                    *)
(*                                                                         *)
(* Python values are tagged tuples, the tag first:                         *)
(*   <<"none">>  <<"str", s>>  <<"int", digits>>  <<"bool", b>>            *)
(*   <<"list", sequence of values>>  <<"dict", sequence of <<key, value>>>>*)
(*   <<"obj", i>>   a reference to the RecapType instance heap[i]          *)
(* A dict is the sequence of its items in insertion order (Python dicts    *)
(* keep it, and resolve() applies the overrides in that order).  Python    *)
(* integers are unbounded and the code never computes with them, so an     *)
(* int is its digit string.  Only RecapType instances have identity; the   *)
(* lists and dicts they hold are values.                                   *)
(* An instance is its class and its __dict__:  [cls |-> ..., d |-> dict].  *)
(***************************************************************************)
EXTENDS Integers, Sequences, FiniteSets, TLC

VARIABLES
  heap,           \* every RecapType instance created so far, by identity
  type_registry,  \* RecapType.type_registry: dict alias -> <<"obj", i>>
  last,           \* the last call made by the (single-threaded) caller
  threads         \* the constructor calls in flight in a multi-threaded host

vars == <<heap, type_registry, last, threads>>

\* The number of instances the program creates beyond the built-in catalogue.
MaxNew == 3

---------------------------------------------------------------------------
\* Python values

None == <<"none">>
Str(s) == <<"str", s>>
Num(s) == <<"int", s>>
Bool(b) == <<"bool", b>>
List(s) == <<"list", s>>
Dict(d) == <<"dict", d>>
Ref(i) == <<"obj", i>>

IsStr(v) == v[1] = "str"
IsList(v) == v[1] = "list"
IsDict(v) == v[1] = "dict"

\* bool(v): the truth value Python gives v in `if alias:`
Truthy(v) ==
  CASE v[1] = "none" -> FALSE
    [] v[1] = "str" -> v[2] # ""
    [] v[1] = "int" -> v[2] # "0"
    [] v[1] = "bool" -> v[2]
    [] v[1] = "list" -> Len(v[2]) > 0
    [] v[1] = "dict" -> Len(v[2]) > 0
    [] OTHER -> TRUE

---------------------------------------------------------------------------
\* dict operations, on the sequence of items

DictHas(d, k) == \E i \in 1..Len(d) : d[i][1] = k

DictGet(d, k, default) ==
  IF DictHas(d, k) THEN d[CHOOSE i \in 1..Len(d) : d[i][1] = k][2] ELSE default

\* d[k] = v: an existing key keeps its place, a new one goes last
DictSet(d, k, v) ==
  IF DictHas(d, k)
  THEN [i \in 1..Len(d) |-> IF d[i][1] = k THEN <<k, v>> ELSE d[i]]
  ELSE Append(d, <<k, v>>)

DictDel(d, k) == SelectSeq(d, LAMBDA e : e[1] # k)

DictKeys(d) == {d[i][1] : i \in 1..Len(d)}

\* d without the keys of ks
DictWithout(d, ks) == SelectSeq(d, LAMBDA e : e[1] \notin ks)

---------------------------------------------------------------------------
\* The classes

\* the first argument each subclass passes to RecapType.__init__
TypeTag(cls) ==
  CASE cls = "NullType" -> "null"
    [] cls = "BoolType" -> "bool"
    [] cls = "IntType" -> "int"
    [] cls = "FloatType" -> "float"
    [] cls = "StringType" -> "string"
    [] cls = "BytesType" -> "bytes"
    [] cls = "ListType" -> "list"
    [] cls = "MapType" -> "map"
    [] cls = "StructType" -> "struct"
    [] cls = "EnumType" -> "enum"
    [] cls = "UnionType" -> "union"
    [] cls = "ProxyType" -> "proxy"

\* The parameters a subclass's __init__ names itself, in order, each with its
\* default; <<"required">> marks a parameter without one.
Required == <<"required">>

Params(cls) ==
  CASE cls = "IntType" -> << <<"bits", Required>>, <<"signed", Bool(TRUE)>> >>
    [] cls = "FloatType" -> << <<"bits", Required>> >>
    [] cls \in {"StringType", "BytesType"} ->
         << <<"bytes_", Required>>, <<"variable", Bool(TRUE)>> >>
    [] cls = "ListType" ->
         << <<"values", Required>>, <<"length", None>>, <<"variable", Bool(TRUE)>> >>
    [] cls = "MapType" -> << <<"keys", Required>>, <<"values", Required>> >>
    [] cls = "StructType" -> << <<"fields", None>> >>
    [] cls = "EnumType" -> << <<"symbols", Required>> >>
    [] cls = "UnionType" -> << <<"types", Required>> >>
    [] cls = "ProxyType" -> << <<"alias", Required>> >>
    [] OTHER -> <<>>

\* Python binds the call's arguments before the body runs: a parameter without
\* default that the call leaves out is a TypeError, and so is a second value for
\* RecapType.__init__'s positional type_.
BindsArgs(cls, kwargs) ==
  /\ \A i \in 1..Len(Params(cls)) :
       Params(cls)[i][2] = Required => DictHas(kwargs, Params(cls)[i][1])
  /\ ~DictHas(kwargs, "type_")

\* **extra_attrs of the subclass: what its own parameters leave over
SubExtra(cls, kwargs) == DictWithout(kwargs, DictKeys(Params(cls)))

\* RecapType.__init__, lines 21-25: logical, alias and doc are parameters of
\* the base class, so these keywords never reach self.extra_attrs.
BaseDict(type_, kw) ==
  << <<"type_", Str(type_)>>,
     <<"logical", DictGet(kw, "logical", None)>>,
     <<"alias", DictGet(kw, "alias", None)>>,
     <<"doc", DictGet(kw, "doc", None)>>,
     <<"extra_attrs", Dict(DictWithout(kw, {"logical", "alias", "doc"}))>> >>

\* the alias RecapType.__init__ receives (ProxyType keeps `alias` for itself)
BaseAlias(cls, kwargs) == DictGet(SubExtra(cls, kwargs), "alias", None)

\* the alias as a registry key (aliases are strings)
AliasKey(v) == v[2]

\* a registry test that finds no alias taken
NeverTaken(reg, alias) == FALSE

\* line 27: `alias in RecapType.type_registry`
AliasTaken(reg, alias) == DictHas(reg, AliasKey(alias))

\* The assignments a subclass makes after super().__init__ returns.
Arg(cls, kwargs, name) ==
  DictGet(kwargs, name,
          DictGet(Params(cls), name, None))

OwnFields(cls, kwargs, d) ==
  CASE cls = "IntType" ->
         DictSet(DictSet(d, "bits", Arg(cls, kwargs, "bits")),
                 "signed", Arg(cls, kwargs, "signed"))
    [] cls = "FloatType" -> DictSet(d, "bits", Arg(cls, kwargs, "bits"))
    [] cls \in {"StringType", "BytesType"} ->
         DictSet(DictSet(d, "bytes_", Arg(cls, kwargs, "bytes_")),
                 "variable", Arg(cls, kwargs, "variable"))
    [] cls = "ListType" ->
         DictSet(DictSet(DictSet(d, "values", Arg(cls, kwargs, "values")),
                         "length", Arg(cls, kwargs, "length")),
                 "variable", Arg(cls, kwargs, "variable"))
    [] cls = "MapType" ->
         DictSet(DictSet(d, "keys", Arg(cls, kwargs, "keys")),
                 "values", Arg(cls, kwargs, "values"))
    [] cls = "StructType" ->
         DictSet(d, "fields",
                 IF Arg(cls, kwargs, "fields") # None
                 THEN Arg(cls, kwargs, "fields") ELSE List(<<>>))
    [] cls = "EnumType" -> DictSet(d, "symbols", Arg(cls, kwargs, "symbols"))
    [] cls = "UnionType" -> DictSet(d, "types", Arg(cls, kwargs, "types"))
    [] cls = "ProxyType" ->
         DictSet(DictSet(d, "alias", Arg(cls, kwargs, "alias")),
                 "_resolved", None)
    [] OTHER -> d

\* A machine state threaded through a call: the heap, the registry, the
\* exception raised ("ok" for none) and the value returned (0 for none).
St(h, r, e, v) == [heap |-> h, reg |-> r, err |-> e, ret |-> v]

\* cls(**kwargs), run to completion by one thread.
New(cls, kwargs, st) ==
  IF ~BindsArgs(cls, kwargs) THEN St(st.heap, st.reg, "TypeError", 0)
  ELSE
    LET alias == BaseAlias(cls, kwargs)
        id == Len(st.heap) + 1
        obj == [cls |-> cls,
                d |-> OwnFields(cls, kwargs,
                                BaseDict(TypeTag(cls), SubExtra(cls, kwargs)))]
    IN IF alias # None /\ AliasTaken(st.reg, alias)
       THEN St(st.heap, st.reg, "ValueError", 0)
       ELSE St(Append(st.heap, obj),
               IF alias # None THEN DictSet(st.reg, AliasKey(alias), Ref(id))
               ELSE st.reg,
               "ok", id)

---------------------------------------------------------------------------
\* The built-in aliases, lines 215-291: the instances are built without an
\* alias of their own and the registry is then updated with them.

Builtins ==
  << <<"int8", "IntType", << <<"bits", Num("8")>>, <<"signed", Bool(TRUE)>> >> >>,
     <<"uint8", "IntType", << <<"bits", Num("8")>>, <<"signed", Bool(FALSE)>> >> >>,
     <<"int16", "IntType", << <<"bits", Num("16")>>, <<"signed", Bool(TRUE)>> >> >>,
     <<"uint16", "IntType", << <<"bits", Num("16")>>, <<"signed", Bool(FALSE)>> >> >>,
     <<"int32", "IntType", << <<"bits", Num("32")>>, <<"signed", Bool(TRUE)>> >> >>,
     <<"uint32", "IntType", << <<"bits", Num("32")>>, <<"signed", Bool(FALSE)>> >> >>,
     <<"int64", "IntType", << <<"bits", Num("64")>>, <<"signed", Bool(TRUE)>> >> >>,
     <<"uint64", "IntType", << <<"bits", Num("64")>>, <<"signed", Bool(FALSE)>> >> >>,
     <<"float16", "FloatType", << <<"bits", Num("16")>> >> >>,
     <<"float32", "FloatType", << <<"bits", Num("32")>> >> >>,
     <<"float64", "FloatType", << <<"bits", Num("64")>> >> >>,
     <<"string32", "StringType",
       << <<"bytes_", Num("2147483648")>>, <<"variable", Bool(TRUE)>> >> >>,
     <<"string64", "StringType",
       << <<"bytes_", Num("9223372036854775807")>>, <<"variable", Bool(TRUE)>> >> >>,
     <<"bytes32", "BytesType",
       << <<"bytes_", Num("2147483648")>>, <<"variable", Bool(TRUE)>> >> >>,
     <<"bytes64", "BytesType",
       << <<"bytes_", Num("9223372036854775807")>>, <<"variable", Bool(TRUE)>> >> >>,
     <<"uuid", "StringType",
       << <<"logical", Str("build.recap.UUID")>>, <<"bytes_", Num("36")>>,
          <<"variable", Bool(FALSE)>> >> >>,
     <<"decimal128", "BytesType",
       << <<"logical", Str("build.recap.Decimal")>>, <<"bytes_", Num("16")>>,
          <<"variable", Bool(FALSE)>>, <<"precision", Num("28")>>,
          <<"scale", Num("14")>> >> >>,
     <<"decimal256", "BytesType",
       << <<"logical", Str("build.recap.Decimal")>>, <<"bytes_", Num("32")>>,
          <<"variable", Bool(FALSE)>>, <<"precision", Num("56")>>,
          <<"scale", Num("28")>> >> >>,
     <<"duration64", "IntType",
       << <<"logical", Str("build.recap.Duration")>>, <<"bits", Num("64")>>,
          <<"signed", Bool(TRUE)>>, <<"unit", Str("millisecond")>> >> >>,
     <<"interval128", "BytesType",
       << <<"logical", Str("build.recap.Interval")>>, <<"bytes_", Num("16")>>,
          <<"variable", Bool(FALSE)>>, <<"unit", Str("millisecond")>> >> >>,
     <<"time32", "IntType",
       << <<"logical", Str("build.recap.Time")>>, <<"bits", Num("32")>>,
          <<"signed", Bool(TRUE)>>, <<"unit", Str("second")>> >> >>,
     <<"time64", "IntType",
       << <<"logical", Str("build.recap.Time")>>, <<"bits", Num("64")>>,
          <<"signed", Bool(TRUE)>>, <<"unit", Str("second")>> >> >>,
     <<"timestamp64", "IntType",
       << <<"logical", Str("build.recap.Timestamp")>>, <<"bits", Num("64")>>,
          <<"signed", Bool(TRUE)>>, <<"unit", Str("millisecond")>>,
          <<"timezone", Str("UTC")>> >> >>,
     <<"date32", "IntType",
       << <<"logical", Str("build.recap.Date")>>, <<"bits", Num("32")>>,
          <<"signed", Bool(TRUE)>>, <<"unit", Str("day")>> >> >>,
     <<"date64", "IntType",
       << <<"logical", Str("build.recap.Date")>>, <<"bits", Num("64")>>,
          <<"signed", Bool(TRUE)>>, <<"unit", Str("day")>> >> >> >>

\* the instance the catalogue's entry i constructs
Builtin(i) == New(Builtins[i][2], Builtins[i][3], St(<<>>, <<>>, "ok", 0)).heap[1]

\* the program once the module is imported
Imported ==
  St([i \in 1..Len(Builtins) |-> Builtin(i)],
     [i \in 1..Len(Builtins) |-> <<Builtins[i][1], Ref(i)>>],
     "ok", 0)

NBuiltin == Len(Builtins)

\* the model's bound on the heap
HeapCap == NBuiltin + MaxNew

---------------------------------------------------------------------------
\* copy.deepcopy

\* the instances a value refers to
RECURSIVE RefsIn(_)
RefsIn(v) ==
  CASE v[1] = "obj" -> {v[2]}
    [] v[1] = "list" -> UNION {RefsIn(v[2][i]) : i \in 1..Len(v[2])}
    [] v[1] = "dict" -> UNION {RefsIn(v[2][i][2]) : i \in 1..Len(v[2])}
    [] OTHER -> {}

ObjRefs(o) == UNION {RefsIn(o.d[i][2]) : i \in 1..Len(o.d)}

RECURSIVE Closure(_, _)
Closure(seen, h) ==
  LET more == seen \cup UNION {ObjRefs(h[i]) : i \in seen}
  IN IF more = seen THEN seen ELSE Closure(more, h)

\* every instance reachable from the instances of `roots` through __dict__s
Reach(roots, h) == Closure(roots, h)

\* v with every reference i replaced by a reference to m[i]
RECURSIVE Remap(_, _)
Remap(v, m) ==
  CASE v[1] = "obj" -> Ref(m[v[2]])
    [] v[1] = "list" -> List([i \in 1..Len(v[2]) |-> Remap(v[2][i], m)])
    [] v[1] = "dict" ->
         Dict([i \in 1..Len(v[2]) |-> <<v[2][i][1], Remap(v[2][i][2], m)>>])
    [] OTHER -> v

\* copy.deepcopy(heap[root]): a fresh instance for the root and for every
\* instance reachable from it (its __dict__ holds _resolved too), each __dict__
\* copied with its references redirected to the copies.  Returns the new heap
\* and the copy of the root.
DeepCopy(root, h) ==
  LET olds == Reach({root}, h)
      m == [j \in olds |-> Len(h) + Cardinality({k \in olds : k <= j})]
      old(n) == CHOOSE j \in olds : m[j] = n
  IN [heap |-> [n \in 1..(Len(h) + Cardinality(olds)) |->
                  IF n <= Len(h) THEN h[n]
                  ELSE [cls |-> h[old(n)].cls,
                        d |-> Remap(Dict(h[old(n)].d), m)[2]]],
      ret |-> m[root]]

---------------------------------------------------------------------------
\* ProxyType.resolve

\* what the classes themselves define, for hasattr
ClassAttrs(cls) ==
  {"type_registry", "from_alias", "__init__", "__eq__"}
    \cup (IF cls = "ProxyType" THEN {"resolve"} ELSE {})

HasAttr(o, k) == DictHas(o.d, k) \/ k \in ClassAttrs(o.cls)

GetAttr(o, k) == DictGet(o.d, k, None)

\* one pass of the loop of lines 203-207 on the instance o
Override(o, attr, value) ==
  IF HasAttr(o, attr)
  THEN [o EXCEPT !.d = DictSet(o.d, attr, value)]
  ELSE [o EXCEPT !.d = DictSet(o.d, "extra_attrs",
                               Dict(DictSet(GetAttr(o, "extra_attrs")[2],
                                            attr, value)))]

RECURSIVE ApplyOverrides(_, _)
ApplyOverrides(items, o) ==
  IF items = <<>> THEN o
  ELSE ApplyOverrides(Tail(items), Override(o, items[1][1], items[1][2]))

\* a cache test that finds no result cached
NeverCached(o) == TRUE

\* line 200: `self._resolved is None`
NotCached(o) == GetAttr(o, "_resolved") = None

\* heap[p].resolve()
Resolve(p, st) ==
  LET self == st.heap[p] IN
  IF ~NotCached(self)
  THEN St(st.heap, st.reg, "ok", GetAttr(self, "_resolved")[2])
  ELSE
    LET key == AliasKey(GetAttr(self, "alias")) IN
    IF ~DictHas(st.reg, key)
    THEN St(st.heap, st.reg, "TypeError", 0)    \* from_alias, lines 33-36
    ELSE
      LET cp == DeepCopy(DictGet(st.reg, key, None)[2], st.heap)
          r == cp.ret
          h == [cp.heap EXCEPT
                  ![p].d = DictSet(@, "_resolved", Ref(r)),
                  ![r] = ApplyOverrides(GetAttr(self, "extra_attrs")[2], @)]
      IN St(h, st.reg, "ok", r)

---------------------------------------------------------------------------
\* from_dict

Fail(st, e) == St(st.heap, st.reg, e, 0)

\* cls(*positional, **kwargs): a keyword that names a positional argument is a
\* TypeError (multiple values for the argument)
Call(cls, positional, kwargs, st) ==
  IF DictKeys(positional) \cap DictKeys(kwargs) # {}
  THEN Fail(st, "TypeError")
  ELSE New(cls, positional \o kwargs, st)

\* a parser that checks bits for int only, bytes for string only, keys but
\* not values for map, and neither symbols nor types
LaxKeys(tag) ==
  CASE tag = "int" -> {"bits"}
    [] tag = "string" -> {"bytes"}
    [] tag = "list" -> {"values"}
    [] tag = "map" -> {"keys"}
    [] OTHER -> {}

\* the keys each `case` of lines 317-368 asks for before it constructs
RequiredKeys(tag) ==
  CASE tag \in {"int", "float"} -> {"bits"}
    [] tag \in {"string", "bytes"} -> {"bytes"}
    [] tag = "list" -> {"values"}
    [] tag = "map" -> {"keys", "values"}
    [] tag = "enum" -> {"symbols"}
    [] tag = "union" -> {"types"}
    [] OTHER -> {}

\* a registration that keeps an earlier binding
BindIfFree(reg, key, ref) == IF DictHas(reg, key) THEN reg ELSE DictSet(reg, key, ref)

\* line 376: RecapType.type_registry[alias] = recap_type
Bind(reg, key, ref) == DictSet(reg, key, ref)

\* line 375: `if alias:`
AliasGiven(alias) == Truthy(alias)

\* what `for x in v` yields
Items(v) ==
  CASE v[1] = "list" -> v[2]
    [] v[1] = "dict" -> [i \in 1..Len(v[2]) |-> Str(v[2][i][1])]

Iterable(v) == v[1] \in {"list", "dict"}

RECURSIVE from_dict(_, _)
RECURSIVE ParseEach(_, _, _, _)

\* [from_dict(t) for t in items]; with `shorthand`, the loop of lines 310-314:
\* a str t is parsed as {"type": t} and a t that is neither is passed over.
\* Stops at the first exception.  Returns the state and the references made.
ParseEach(items, shorthand, st, acc) ==
  IF items = <<>> \/ st.err # "ok" THEN [st |-> st, out |-> acc]
  ELSE
    LET t == Head(items) IN
    IF shorthand /\ ~IsDict(t) /\ ~IsStr(t)
    THEN ParseEach(Tail(items), shorthand, st, acc)
    ELSE
      LET one == from_dict(IF shorthand /\ IsStr(t)
                           THEN Dict(<< <<"type", t>> >>) ELSE t, st)
      IN ParseEach(Tail(items), shorthand, one,
                   IF one.err = "ok" THEN Append(acc, Ref(one.ret)) ELSE acc)

\* the `match type_name` of lines 317-370, past the required-key checks
Build(tag, type_name, d, st) ==
  CASE tag = "null" -> New("NullType", d, st)
    [] tag = "bool" -> New("BoolType", d, st)
    [] tag = "int" -> New("IntType", d, st)
    [] tag = "float" -> New("FloatType", d, st)
    [] tag \in {"string", "bytes"} ->
         New(IF tag = "string" THEN "StringType" ELSE "BytesType",
             DictSet(DictDel(d, "bytes"), "bytes_", DictGet(d, "bytes", None)),
             st)
    [] tag = "list" ->
         LET values == from_dict(DictGet(d, "values", None), st) IN
         IF values.err # "ok" THEN values
         ELSE Call("ListType", << <<"values", Ref(values.ret)>> >>,
                   DictDel(d, "values"), values)
    [] tag = "map" ->
         LET keys == from_dict(DictGet(d, "keys", None), st) IN
         IF keys.err # "ok" THEN keys
         ELSE LET values == from_dict(DictGet(d, "values", None), keys) IN
              IF values.err # "ok" THEN values
              ELSE Call("MapType",
                        << <<"keys", Ref(keys.ret)>>,
                           <<"values", Ref(values.ret)>> >>,
                        DictWithout(d, {"keys", "values"}), values)
    [] tag = "struct" ->
         LET given == DictGet(d, "fields", List(<<>>)) IN
         IF ~Iterable(given) THEN Fail(st, "TypeError")
         ELSE LET fields == ParseEach(Items(given), FALSE, st, <<>>) IN
              IF fields.st.err # "ok" THEN fields.st
              ELSE New("StructType", DictSet(d, "fields", List(fields.out)),
                       fields.st)
    [] tag = "enum" -> New("EnumType", d, st)
    [] tag = "union" ->
         LET given == DictGet(d, "types", None) IN
         IF ~Iterable(given) THEN Fail(st, "TypeError")
         ELSE LET types == ParseEach(Items(given), FALSE, st, <<>>) IN
              IF types.st.err # "ok" THEN types.st
              ELSE Call("UnionType", << <<"types", List(types.out)>> >>,
                        DictDel(d, "types"), types.st)
    [] OTHER -> Call("ProxyType", << <<"alias", type_name>> >>, d, st)

from_dict(type_dict, st) ==
  IF ~IsDict(type_dict) THEN Fail(st, "AttributeError")   \* no .copy()
  ELSE
    LET alias == DictGet(type_dict[2], "alias", None)
        type_name == DictGet(type_dict[2], "type", None)
        d == DictWithout(type_dict[2], {"alias", "type"})
        built ==
          IF type_name = None THEN Fail(st, "ValueError")
          ELSE IF IsList(type_name) THEN
            LET types == ParseEach(type_name[2], TRUE, st, <<>>) IN
            IF types.st.err # "ok" THEN types.st
            ELSE Call("UnionType", << <<"types", List(types.out)>> >>, d,
                      types.st)
          ELSE IF IsStr(type_name) THEN
            IF ~(RequiredKeys(type_name[2]) \subseteq DictKeys(d))
            THEN Fail(st, "ValueError")
            ELSE Build(type_name[2], type_name, d, st)
          ELSE Fail(st, "ValueError")
    IN IF built.err # "ok" THEN Fail(built, built.err)
       ELSE IF AliasGiven(alias)
       THEN St(built.heap, Bind(built.reg, AliasKey(alias), Ref(built.ret)),
               "ok", built.ret)
       ELSE built

---------------------------------------------------------------------------
\* The calls the caller makes.

\* from_dict's arguments.  Nested type positions hold mappings (or, in the
\* list form of "type", strings), aliases are strings, and the keys are those
\* the constructors take as keywords.
Mappings ==
  << \* 1: {"type": "B", "alias": "A"}
     Dict(<< <<"type", Str("B")>>, <<"alias", Str("A")>> >>),
     \* 2: {"type": "A", "alias": "B"}
     Dict(<< <<"type", Str("A")>>, <<"alias", Str("B")>> >>),
     \* 3: {"type": "A", "alias": "A"}
     Dict(<< <<"type", Str("A")>>, <<"alias", Str("A")>> >>),
     \* 4: {"type": "uuid", "alias": "A", "doc": "user id", "variable": True,
     \*     "unit": "x"}
     Dict(<< <<"type", Str("uuid")>>, <<"alias", Str("A")>>,
             <<"doc", Str("user id")>>, <<"variable", Bool(TRUE)>>,
             <<"unit", Str("x")>> >>),
     \* 5: {"type": "bool", "alias": "uuid"}
     Dict(<< <<"type", Str("bool")>>, <<"alias", Str("uuid")>> >>),
     \* 6: {"type": "bool", "alias": ""}
     Dict(<< <<"type", Str("bool")>>, <<"alias", Str("")>> >>),
     \* 7: {"type": ["null", "int32"]}
     Dict(<< <<"type", List(<< Str("null"), Str("int32") >>)>> >>),
     \* 8: {"type": "list", "alias": "A",
     \*     "values": {"type": "bool", "alias": "A"}}
     Dict(<< <<"type", Str("list")>>, <<"alias", Str("A")>>,
             <<"values", Dict(<< <<"type", Str("bool")>>,
                                 <<"alias", Str("A")>> >>)>> >>),
     \* 9: {"type": "struct",
     \*     "fields": [{"type": "bool", "alias": "B"}, {"type": "list"}]}
     Dict(<< <<"type", Str("struct")>>,
             <<"fields", List(<< Dict(<< <<"type", Str("bool")>>,
                                         <<"alias", Str("B")>> >>),
                                 Dict(<< <<"type", Str("list")>> >>) >>)>> >>),
     \* 10: {"type": "int", "alias": "A"}
     Dict(<< <<"type", Str("int")>>, <<"alias", Str("A")>> >>),
     \* 11: {"type": "list", "values": {"type": "string"}}
     Dict(<< <<"type", Str("list")>>,
             <<"values", Dict(<< <<"type", Str("string")>> >>)>> >>),
     \* 12: {"type": "map", "keys": {"type": "enum"}, "values": {"type": "bool"}}
     Dict(<< <<"type", Str("map")>>,
             <<"keys", Dict(<< <<"type", Str("enum")>> >>)>>,
             <<"values", Dict(<< <<"type", Str("bool")>> >>)>> >>),
     \* 13: {"type": "map", "keys": {"type": "bool"}}
     Dict(<< <<"type", Str("map")>>,
             <<"keys", Dict(<< <<"type", Str("bool")>> >>)>> >>),
     \* 14: {"type": "union", "types": [{"type": "bytes", "variable": False}]}
     Dict(<< <<"type", Str("union")>>,
             <<"types", List(<< Dict(<< <<"type", Str("bytes")>>,
                                        <<"variable", Bool(FALSE)>> >>) >>)>> >>),
     \* 15: {"type": [{"type": "float"}]}
     Dict(<< <<"type", List(<< Dict(<< <<"type", Str("float")>> >>) >>)>> >>),
     \* 16: {"alias": "A"}
     Dict(<< <<"alias", Str("A")>> >>),
     \* 17: {"type": 5}
     Dict(<< <<"type", Num("5")>> >>),
     \* 18: {"type": "union", "alias": "B"}
     Dict(<< <<"type", Str("union")>>, <<"alias", Str("B")>> >>),
     \* 19: {"type": ["float", "null"]}
     Dict(<< <<"type", List(<< Str("float"), Str("null") >>)>> >>) >>

\* the mappings that define an alias and parse
AliasDefinitions == 1..5

\* the mappings the parser is driven with
ParserInputs == 4..Len(Mappings)

\* the constructor calls: <<class, keyword arguments>>
Calls ==
  << \* 1: IntType(bits=8, alias="A")
     <<"IntType", << <<"bits", Num("8")>>, <<"alias", Str("A")>> >> >>,
     \* 2: BoolType(alias="uuid")
     <<"BoolType", << <<"alias", Str("uuid")>> >> >>,
     \* 3: ProxyType("uuid", doc="user id")
     <<"ProxyType", << <<"alias", Str("uuid")>>, <<"doc", Str("user id")>> >> >>,
     \* 4: ProxyType("A")
     <<"ProxyType", << <<"alias", Str("A")>> >> >>,
     \* 5: IntType(signed=False, alias="uuid")
     <<"IntType", << <<"signed", Bool(FALSE)>>, <<"alias", Str("uuid")>> >> >>,
     \* 6: ProxyType("int32", bits=16, unit="s")
     <<"ProxyType", << <<"alias", Str("int32")>>, <<"bits", Num("16")>>,
                       <<"unit", Str("s")>> >> >>,
     \* 7: BoolType(alias="A")
     <<"BoolType", << <<"alias", Str("A")>> >> >> >>

Outcome(op, arg, st) == [op |-> op, arg |-> arg, ret |-> st.ret, err |-> st.err]

Now == St(heap, type_registry, "ok", 0)

Threads == {1, 2}

Idle == [pc |-> "idle", call |-> 0, self |-> 0, err |-> "ok"]

Init ==
  /\ heap = Imported.heap
  /\ type_registry = Imported.reg
  /\ last = [op |-> "import", arg |-> 0, ret |-> 0, err |-> "ok"]
  /\ threads = [t \in Threads |-> Idle]

\* Calls[i][1](**Calls[i][2])
Construct(i) ==
  \E st \in {New(Calls[i][1], Calls[i][2], Now)} :
    /\ Len(st.heap) <= HeapCap
    /\ heap' = st.heap
    /\ type_registry' = st.reg
    /\ last' = Outcome("construct", i, st)
    /\ UNCHANGED threads

\* from_dict(Mappings[i])
FromDict(i) ==
  \E st \in {from_dict(Mappings[i], Now)} :
    /\ Len(st.heap) <= HeapCap
    /\ heap' = st.heap
    /\ type_registry' = st.reg
    /\ last' = Outcome("from_dict", i, st)
    /\ UNCHANGED threads

IsProxy(h, p) == h[p].cls = "ProxyType"

\* heap[p].resolve(), on any ProxyType instance the program has made: one a
\* constructor or from_dict returned, one nested in such a result, one held by
\* the registry, one a resolve() returned
ResolveProxy(p) ==
  /\ IsProxy(heap, p)
  /\ \E st \in {Resolve(p, Now)} :
       /\ Len(st.heap) <= HeapCap
       /\ heap' = st.heap
       /\ type_registry' = st.reg
       /\ last' = Outcome("resolve", p, st)
       /\ UNCHANGED threads

\* The program driven through its whole interface.
Next ==
  \/ \E i \in 1..Len(Calls) : Construct(i)
  \/ \E i \in AliasDefinitions : FromDict(i)
  \/ \E p \in 1..Len(heap) : ResolveProxy(p)

Spec == Init /\ [][Next]_vars

\* The parser driven with every mapping, valid and invalid, over a registry
\* that a constructor may have written.
NextParser ==
  \/ \E i \in ParserInputs : FromDict(i)
  \/ Construct(1)

SpecParser == Init /\ [][NextParser]_vars

---------------------------------------------------------------------------
\* A multi-threaded host: each thread runs one constructor call, and the
\* interpreter may switch threads between any two bytecodes.  The membership
\* test of line 27 and the store of line 29 are each atomic; nothing makes the
\* pair atomic.

ThreadCalls == {1, 2, 7}

CallCls(t) == Calls[threads[t].call][1]

CallArgs(t) == Calls[threads[t].call][2]

\* the call is entered and RecapType.__init__ runs lines 21-25
T_Enter(t, i) ==
  /\ threads[t].pc = "idle"
  /\ BindsArgs(Calls[i][1], Calls[i][2])
  /\ heap' = Append(heap,
                    [cls |-> Calls[i][1],
                     d |-> BaseDict(TypeTag(Calls[i][1]),
                                    SubExtra(Calls[i][1], Calls[i][2]))])
  /\ threads' = [threads EXCEPT ![t] =
                   [pc |-> IF BaseAlias(Calls[i][1], Calls[i][2]) # None
                           THEN "check" ELSE "fields",
                    call |-> i, self |-> Len(heap) + 1, err |-> "ok"]]
  /\ UNCHANGED <<type_registry, last>>

\* lines 27-28
T_Check(t) ==
  /\ threads[t].pc = "check"
  /\ threads' = [threads EXCEPT ![t] =
                   IF AliasTaken(type_registry, BaseAlias(CallCls(t), CallArgs(t)))
                   THEN [@ EXCEPT !.pc = "raised", !.err = "ValueError"]
                   ELSE [@ EXCEPT !.pc = "register"]]
  /\ UNCHANGED <<heap, type_registry, last>>

\* line 29
T_Register(t) ==
  /\ threads[t].pc = "register"
  /\ type_registry' = DictSet(type_registry,
                              AliasKey(BaseAlias(CallCls(t), CallArgs(t))),
                              Ref(threads[t].self))
  /\ threads' = [threads EXCEPT ![t].pc = "fields"]
  /\ UNCHANGED <<heap, last>>

\* the subclass's own assignments, after super().__init__ returned
T_Fields(t) ==
  /\ threads[t].pc = "fields"
  /\ heap' = [heap EXCEPT ![threads[t].self].d = OwnFields(CallCls(t), CallArgs(t), @)]
  /\ threads' = [threads EXCEPT ![t].pc = "done"]
  /\ UNCHANGED <<type_registry, last>>

NextThreads ==
  \/ \E t \in Threads, i \in ThreadCalls : T_Enter(t, i)
  \/ \E t \in Threads : T_Check(t)
  \/ \E t \in Threads : T_Register(t)
  \/ \E t \in Threads : T_Fields(t)

SpecThreads == Init /\ [][NextThreads]_vars

---------------------------------------------------------------------------
\* Properties

\* the instances the registry binds
RegIds(reg) == {reg[i][2][2] : i \in 1..Len(reg)}

Bound(reg, key) == DictGet(reg, key, None)[2]

\* a step leaves every binding and every bound instance as it was
RegistryKept ==
  /\ type_registry' = type_registry
  /\ \A i \in RegIds(type_registry) : heap'[i] = heap[i]

\* the step is a resolve() of a proxy that had no cached result
FreshResolve ==
  /\ last'.op = "resolve"
  /\ GetAttr(heap[last'.arg], "_resolved") = None

ExtraOf(o) == GetAttr(o, "extra_attrs")[2]

\* the overrides a Proxy was given: every keyword beside the target alias
GivenOverrides(o) ==
  (IF GetAttr(o, "logical") # None
   THEN << <<"logical", GetAttr(o, "logical")>> >> ELSE <<>>)
  \o (IF GetAttr(o, "doc") # None
      THEN << <<"doc", GetAttr(o, "doc")>> >> ELSE <<>>)
  \o ExtraOf(o)

\* got is target with the overrides ov applied: an override that names an
\* attribute of the target sets it, another is an entry of extra_attrs, and
\* whatever no override names is as in the target
IsOverridden(target, ov, got) ==
  /\ got.cls = target.cls
  /\ \A j \in 1..Len(ov) :
       IF HasAttr(target, ov[j][1])
       THEN GetAttr(got, ov[j][1]) = ov[j][2]
       ELSE DictGet(ExtraOf(got), ov[j][1], None) = ov[j][2]
  /\ \A k \in DictKeys(target.d) \ (DictKeys(ov) \cup {"extra_attrs"}) :
       RefsIn(GetAttr(target, k)) = {} => GetAttr(got, k) = GetAttr(target, k)
  /\ \A k \in DictKeys(ExtraOf(target)) \ DictKeys(ov) :
       DictGet(ExtraOf(got), k, None) = DictGet(ExtraOf(target), k, None)

\* C1: a resolve() that resolves (no cached result) returns the registry entry
\* of the Proxy's alias with every override the Proxy was given applied: as
\* the attribute of that name where the target has one (doc and logical
\* included), as an entry of extra_attrs otherwise.
C1_OverridesApplied ==
  [][(FreshResolve /\ last'.err = "ok") =>
       IsOverridden(heap[Bound(type_registry,
                               AliasKey(GetAttr(heap[last'.arg], "alias")))],
                    GivenOverrides(heap[last'.arg]),
                    heap'[last'.ret])]_vars

\* C2: a constructor call whose alias is a key of the registry raises the
\* alias collision (ValueError) and leaves every binding, and every bound
\* instance, as it was.
C2_CollisionRaises ==
  [][(/\ last'.op = "construct"
      /\ BindsArgs(Calls[last'.arg][1], Calls[last'.arg][2])
      /\ BaseAlias(Calls[last'.arg][1], Calls[last'.arg][2]) # None
      /\ DictHas(type_registry,
                 BaseAlias(Calls[last'.arg][1], Calls[last'.arg][2])[2]))
     => (/\ last'.err = "ValueError"
         /\ last'.ret = 0
         /\ RegistryKept)]_vars

\* a constructor call has just collided on alias "A", which a from_dict had
\* bound to a Proxy
C2_Witness ==
  /\ last.op = "construct"
  /\ last.arg \in {1, 7}
  /\ last.err = "ValueError"
  /\ DictHas(type_registry, "A")
  /\ heap[Bound(type_registry, "A")].cls = "ProxyType"

\* C3: a resolve() that returns, returns an instance that is not a Proxy.
C3_ResolvesToConcrete ==
  (last.op = "resolve" /\ last.err = "ok") => heap[last.ret].cls # "ProxyType"

\* the alias chain from `cur` leads to `goal`: cur is bound to a Proxy for
\* goal, or to a Proxy for an alias (not yet seen) whose chain does
RECURSIVE Reaches(_, _, _, _, _)
Reaches(cur, goal, seen, reg, h) ==
  /\ DictHas(reg, cur)
  /\ h[Bound(reg, cur)].cls = "ProxyType"
  /\ LET nxt == AliasKey(GetAttr(h[Bound(reg, cur)], "alias")) IN
       \/ nxt = goal
       \/ nxt \notin seen /\ Reaches(nxt, goal, seen \cup {nxt}, reg, h)

OnCycle(a, reg, h) == Reaches(a, a, {}, reg, h)

\* C4: a resolve() that resolves a Proxy for an alias of a cycle of the alias
\* chain fails with a cyclic-alias error and returns no type.
C4_CycleRaises ==
  [][(FreshResolve
      /\ OnCycle(AliasKey(GetAttr(heap[last'.arg], "alias")), type_registry, heap))
     => (last'.err = "CyclicAliasError" /\ last'.ret = 0)]_vars

\* C5: resolve() leaves every binding of the registry and every attribute of
\* every bound instance as it was, and what it returns shares no instance
\* with what the registry binds.
C5_ResolveKeepsRegistry ==
  [][last'.op = "resolve" =>
       (/\ RegistryKept
        /\ last'.ret # 0 =>
             Reach({last'.ret}, heap') \cap Reach(RegIds(type_registry'), heap') = {})]_vars

\* the top-level alias key of the mapping from_dict was last called with
LastAlias == DictGet(Mappings[last.arg][2], "alias", None)

\* C6, as claimed: after a from_dict that returned, on a mapping with an alias
\* key, the registry binds that alias to the instance returned.
C6_AliasKeyBinds ==
  (last.op = "from_dict" /\ last.err = "ok" /\ LastAlias # None)
    => (/\ DictHas(type_registry, LastAlias[2])
        /\ DictGet(type_registry, LastAlias[2], None) = Ref(last.ret))

\* C6, amended: after a from_dict that returned, on a mapping whose alias key
\* holds a non-empty string, the registry binds that alias to the instance
\* returned, whatever it bound before.
C6_NonEmptyAliasBinds ==
  (last.op = "from_dict" /\ last.err = "ok" /\ LastAlias # None
     /\ LastAlias # Str(""))
    => (/\ DictHas(type_registry, LastAlias[2])
        /\ DictGet(type_registry, LastAlias[2], None) = Ref(last.ret))

\* from_dict has just rebound "A", which the constructor IntType(bits=8,
\* alias="A") had bound, to the Proxy it returned
C6_Witness ==
  /\ last.op = "from_dict"
  /\ last.arg = 4
  /\ last.err = "ok"
  /\ DictGet(type_registry, "A", None) = Ref(last.ret)
  /\ \E i \in 1..Len(heap) :
       /\ heap[i].cls = "IntType"
       /\ GetAttr(heap[i], "alias") = Str("A")

\* the required fields, as the claim lists them
ClaimedRequired(tag) ==
  CASE tag = "int" -> {"bits"}
    [] tag = "float" -> {"bits"}
    [] tag = "string" -> {"bytes"}
    [] tag = "bytes" -> {"bytes"}
    [] tag = "list" -> {"values"}
    [] tag = "map" -> {"keys", "values"}
    [] tag = "enum" -> {"symbols"}
    [] tag = "union" -> {"types"}
    [] OTHER -> {}

\* The mapping m is invalid: it lacks "type", or its "type" is neither a string
\* nor a list, or it names a known tag without a required field, or one of the
\* mappings nested in its type positions is invalid (a string in the list form
\* of "type" stands for {"type": <string>}).
RECURSIVE Invalid(_)
Invalid(m) ==
  LET d == m[2]
      t == DictGet(d, "type", None)
      nested(k) ==
        IF DictHas(d, k) /\ IsDict(DictGet(d, k, None))
        THEN Invalid(DictGet(d, k, None)) ELSE FALSE
      anyOf(k) ==
        IF DictHas(d, k) /\ IsList(DictGet(d, k, None))
        THEN \E j \in 1..Len(DictGet(d, k, None)[2]) :
               IsDict(DictGet(d, k, None)[2][j]) /\ Invalid(DictGet(d, k, None)[2][j])
        ELSE FALSE
  IN \/ t = None
     \/ ~IsStr(t) /\ ~IsList(t)
     \/ IsStr(t) /\ ~(ClaimedRequired(t[2]) \subseteq DictKeys(d))
     \/ IsStr(t) /\ t[2] = "list" /\ nested("values")
     \/ IsStr(t) /\ t[2] = "map" /\ (nested("keys") \/ nested("values"))
     \/ IsStr(t) /\ t[2] = "struct" /\ anyOf("fields")
     \/ IsStr(t) /\ t[2] = "union" /\ anyOf("types")
     \/ IsList(t) /\ \E j \in 1..Len(t[2]) :
          \/ IsDict(t[2][j]) /\ Invalid(t[2][j])
          \/ IsStr(t[2][j]) /\ ClaimedRequired(t[2][j][2]) # {}

\* C7: from_dict on an invalid mapping raises the validation error
\* (ValueError) and returns no type.
C7_InvalidRaises ==
  (last.op = "from_dict" /\ Invalid(Mappings[last.arg]))
    => (last.err = "ValueError" /\ last.ret = 0)

\* from_dict has just failed on mapping 12, whose nested "keys" mapping names
\* enum without symbols
C7_Witness ==
  /\ last.op = "from_dict"
  /\ last.arg = 12
  /\ Invalid(Mappings[12])
  /\ last.err = "ValueError"

\* C8: a from_dict that raises leaves every binding of the registry, and every
\* bound instance, as it was.
C8_FailureKeepsRegistry ==
  [][(last'.op = "from_dict" /\ last'.err # "ok") => RegistryKept]_vars

\* C9: once a Proxy holds a resolved result it keeps it: no step changes the
\* cached reference or the attributes of the cached instance, and a resolve()
\* of that Proxy returns the cached instance and touches neither the heap nor
\* the registry.
C9_CacheKept ==
  [][\A p \in 1..Len(heap) :
       (IsProxy(heap, p) /\ GetAttr(heap[p], "_resolved") # None) =>
         LET r == GetAttr(heap[p], "_resolved")[2] IN
         /\ GetAttr(heap'[p], "_resolved") = Ref(r)
         /\ heap'[r].cls = heap[r].cls
         /\ DictDel(heap'[r].d, "_resolved") = DictDel(heap[r].d, "_resolved")
         /\ (last'.op = "resolve" /\ last'.arg = p) =>
              (/\ last'.err = "ok"
               /\ last'.ret = r
               /\ heap' = heap
               /\ type_registry' = type_registry)]_vars

\* a resolve() has just returned the cached StringType copy of a Proxy for an
\* alias that a from_dict has since rebound to an instance of another class
C9_Witness ==
  /\ last.op = "resolve"
  /\ last.err = "ok"
  /\ heap[last.ret].cls = "StringType"
  /\ LET a == AliasKey(GetAttr(heap[last.arg], "alias")) IN
       /\ DictHas(type_registry, a)
       /\ heap[Bound(type_registry, a)].cls = "BoolType"

Finished(t) == threads[t].pc \in {"done", "raised"}

\* C10: when two threads have each constructed a type with the same alias,
\* which no one had registered before, exactly one construction succeeded, the
\* other raised the alias collision, and the registry binds the alias to the
\* instance of the one that succeeded.
C10_OneConstructionWins ==
  \A t \in Threads, u \in Threads :
    (/\ t # u
     /\ Finished(t) /\ Finished(u)
     /\ BaseAlias(CallCls(t), CallArgs(t)) = BaseAlias(CallCls(u), CallArgs(u))
     /\ ~DictHas(Imported.reg, AliasKey(BaseAlias(CallCls(t), CallArgs(t)))))
    => \E w \in {t, u} :
         /\ threads[w].pc = "done"
         /\ \A v \in {t, u} \ {w} :
              threads[v].pc = "raised" /\ threads[v].err = "ValueError"
         /\ DictGet(type_registry, AliasKey(BaseAlias(CallCls(w), CallArgs(w))), None)
              = Ref(threads[w].self)

=============================================================================
